---------------------------- MODULE Spec2Model ----------------------------
(***************************************************************************)
(* Model of the generic thread-safe FIFO queue of package queue            *)
(* (queue.go, config.go, errors.go).  A queue is built by New from a list  *)
(* of options, and is then used by goroutines calling Enqueue, Dequeue,    *)
(* Peek and Size.  Every method is modelled statement by statement: the    *)
(* acquisition of q.mu, the test, the mutation and the deferred release    *)
(* are separate steps, so that interleavings of goroutines are explored.   *)
(***************************************************************************)
EXTENDS Integers, Sequences, FiniteSets, TLC

(* ------------------------------ bounds -------------------------------- *)
NumThreads == 2      \* goroutines using the queue
MaxVal     == 1      \* values of T are 0..MaxVal (T = int, 0 is the zero value)
MaxCap     == 2      \* largest capacity passed to WithCapacity
MaxOpts    == 3      \* longest option list passed to New
MaxCalls   == 4      \* method calls made in one behaviour
MaxFill    == 3      \* values enqueued by the FIFO test before it drains
ConcM      == 1      \* numOperations: calls per goroutine in the concurrency test

(* ------------------------- program constants -------------------------- *)
UnlimitedCapacity == -1

ErrOverflow  == "queue overflow"
ErrUnderflow == "queue underflow"
Nil          == "nil"

Zero == 0            \* var zero T, for T = int

(* ----------------------------- vocabulary ----------------------------- *)
Threads  == 1..NumThreads
NoThread == 0
Vals     == 0..MaxVal
NoVal    == -1       \* a result slot that the callee has not written
CapArgs  == (UnlimitedCapacity - 1)..MaxCap
Methods  == {"Enqueue", "Dequeue", "Peek", "Size"}

RECURSIVE SeqsUpTo(_, _)
SeqsUpTo(S, n) ==
    IF n = 0 THEN {<<>>}
    ELSE LET shorter == SeqsUpTo(S, n - 1)
         IN  shorter \cup {Append(s, x) : s \in {r \in shorter : Len(r) = n - 1}, x \in S}

IsPrefix(s, t) == Len(s) <= Len(t) /\ SubSeq(t, 1, Len(s)) = s

VARIABLES
    capacity,   \* queue.capacity
    items,      \* queue.items
    mu,         \* queue.mu: the goroutine holding the write lock, and the read holders
    phase,      \* where construction stands: "args", "opts", "ready", "panicked"
    args,       \* capacity values still to be passed to WithCapacity
    opts,       \* options built so far / still to be applied by newQueue
    pc,         \* per goroutine: position inside the method it is running
    op,         \* per goroutine: the method it is running
    arg,        \* per goroutine: the val parameter of Enqueue
    ret,        \* per goroutine: the value result (T or int)
    err,        \* per goroutine: the error result
    snap,       \* per goroutine: items as they were when it acquired q.mu (history)
    enqLog,     \* values appended, in the order the appends happened (history)
    deqLog,     \* values removed, in the order the removals happened (history)
    nEnqOk,     \* Enqueue calls that have returned nil (counted by the callers)
    nDeqOk,     \* Dequeue calls that have returned nil (counted by the callers)
    nCalls,     \* method calls started
    drv         \* the caller's script (test driver) and what it has observed

qvars   == <<capacity, items, mu>>
newvars == <<phase, args, opts>>
tvars   == <<pc, op, arg, ret, err, snap>>
hvars   == <<enqLog, deqLog, nEnqOk, nDeqOk, nCalls>>
vars    == <<capacity, items, mu, phase, args, opts, pc, op, arg, ret, err,
             snap, enqLog, deqLog, nEnqOk, nDeqOk, nCalls, drv>>

(* ---------------------------- construction ---------------------------- *)

\* config.go WithCapacity: returns the closure; the test on cap is inside it.
WithCapacity ==
    /\ phase = "args"
    /\ args # <<>>
    /\ opts' = Append(opts, [cap |-> Head(args)])
    /\ args' = Tail(args)
    /\ UNCHANGED <<capacity, items, mu, phase, tvars, hvars, drv>>

\* queue.go newQueue, the composite literal: capacity starts unlimited.
NewAlloc ==
    /\ phase = "args"
    /\ args = <<>>
    /\ capacity' = UnlimitedCapacity
    /\ phase' = "opts"
    /\ UNCHANGED <<items, mu, args, opts, tvars, hvars, drv>>

\* Variant: the bound of the test is off by one, so -2 is accepted.
OptionPanicsBelow(cap) == cap < UnlimitedCapacity - 1

\* The test inside the closure returned by WithCapacity.
OptionPanics(cap) == cap < UnlimitedCapacity

\* Variant: an invalid option is skipped instead of panicking.
ApplyOptionSkipInvalid ==
    /\ phase = "opts"
    /\ opts # <<>>
    /\ capacity' = IF OptionPanics(Head(opts).cap) THEN capacity ELSE Head(opts).cap
    /\ opts' = Tail(opts)
    /\ UNCHANGED <<items, mu, phase, args, tvars, hvars, drv>>

\* Variant: a capacity that an earlier option has set is kept.
ApplyOptionFirstWins ==
    /\ phase = "opts"
    /\ opts # <<>>
    /\ IF OptionPanics(Head(opts).cap)
       THEN /\ phase' = "panicked"
            /\ UNCHANGED capacity
       ELSE /\ capacity' = IF capacity = UnlimitedCapacity
                           THEN Head(opts).cap ELSE capacity
            /\ UNCHANGED phase
    /\ opts' = Tail(opts)
    /\ UNCHANGED <<items, mu, args, tvars, hvars, drv>>

\* newQueue's loop body opt(s): the closure panics or assigns q.capacity.
ApplyOption ==
    /\ phase = "opts"
    /\ opts # <<>>
    /\ IF OptionPanics(Head(opts).cap)
       THEN /\ phase' = "panicked"
            /\ UNCHANGED capacity
       ELSE /\ capacity' = Head(opts).cap
            /\ UNCHANGED phase
    /\ opts' = Tail(opts)
    /\ UNCHANGED <<items, mu, args, tvars, hvars, drv>>

\* newQueue after the loop: s.items = make([]T, 0); return s.
NewReturn ==
    /\ phase = "opts"
    /\ opts = <<>>
    /\ items' = <<>>
    /\ phase' = "ready"
    /\ UNCHANGED <<capacity, mu, args, opts, tvars, hvars, drv>>

Construct == WithCapacity \/ NewAlloc \/ ApplyOption \/ NewReturn

(* ------------------------------- q.mu --------------------------------- *)

\* Variant: Lock does not wait for the readers to leave.
CanLockNoReaders == mu.writer = NoThread

\* sync.RWMutex: Lock waits until there is neither a writer nor a reader.
CanLock == mu.writer = NoThread /\ mu.readers = {}

\* Variant: RLock does not wait for the writer to leave.
CanRLockAlways == TRUE

\* sync.RWMutex: RLock waits until there is no writer.
CanRLock == mu.writer = NoThread

\* Variant: Dequeue takes the read lock.
ExclusiveEnqueueOnly(m) == m \in {"Enqueue"}

\* Variant: Enqueue takes the read lock.
ExclusiveDequeueOnly(m) == m \in {"Dequeue"}

\* The methods that take q.mu.Lock(); the others take q.mu.RLock().
Exclusive(m) == m \in {"Enqueue", "Dequeue"}

\* q.mu.Lock() / q.mu.RLock(), the first statement of every method.
Acquire(t) ==
    /\ pc[t] = "lock"
    /\ IF Exclusive(op[t])
       THEN CanLock  /\ mu' = [mu EXCEPT !.writer = t]
       ELSE CanRLock /\ mu' = [mu EXCEPT !.readers = @ \cup {t}]
    /\ pc' = [pc EXCEPT ![t] = "test"]
    /\ snap' = [snap EXCEPT ![t] = items]
    /\ UNCHANGED <<capacity, items, newvars, op, arg, ret, err, hvars, drv>>

\* Variant: the unlock is not deferred and the error returns skip it.
ReleaseOnSuccess(t) ==
    /\ pc[t] = "unlock"
    /\ mu' = IF err[t] # Nil THEN mu
             ELSE IF Exclusive(op[t])
                  THEN [mu EXCEPT !.writer = NoThread]
                  ELSE [mu EXCEPT !.readers = @ \ {t}]
    /\ pc' = [pc EXCEPT ![t] = "returned"]
    /\ snap' = [snap EXCEPT ![t] = <<>>]
    /\ UNCHANGED <<capacity, items, newvars, op, arg, ret, err, hvars, drv>>

\* defer q.mu.Unlock() / defer q.mu.RUnlock(), then the method returns.
Release(t) ==
    /\ pc[t] = "unlock"
    /\ mu' = IF Exclusive(op[t])
             THEN [mu EXCEPT !.writer = NoThread]
             ELSE [mu EXCEPT !.readers = @ \ {t}]
    /\ pc' = [pc EXCEPT ![t] = "returned"]
    /\ snap' = [snap EXCEPT ![t] = <<>>]
    /\ UNCHANGED <<capacity, items, newvars, op, arg, ret, err, hvars, drv>>

(* ------------------------------ Enqueue ------------------------------- *)

\* Variant: a capacity of 0 is taken for "no limit" (> 0 for >= 0).
OverflowsPositive(cap, n) == cap > 0 /\ n + 1 > cap

\* Variant: the unlimited sentinel is not tested.
OverflowsUnsigned(cap, n) == n + 1 > cap

\* Variant: the +1 is missing, so one value too many is accepted.
OverflowsLate(cap, n) == cap >= 0 /\ n > cap

\* Variant: the comparison is off by one (>= for >).
OverflowsEarly(cap, n) == cap >= 0 /\ n + 1 >= cap

\* if q.capacity >= 0 && len(q.items)+1 > q.capacity
Overflows(cap, n) == cap >= 0 /\ n + 1 > cap

EnqueueTest(t) ==
    /\ pc[t] = "test" /\ op[t] = "Enqueue"
    /\ IF Overflows(capacity, Len(items))
       THEN /\ err' = [err EXCEPT ![t] = ErrOverflow]
            /\ pc' = [pc EXCEPT ![t] = "unlock"]
       ELSE /\ pc' = [pc EXCEPT ![t] = "act"]
            /\ UNCHANGED err
    /\ UNCHANGED <<qvars, newvars, op, arg, ret, snap, hvars, drv>>

\* Variant: the capacity is used as a count of free slots.
EnqueueAppendCounting(t) ==
    /\ pc[t] = "act" /\ op[t] = "Enqueue"
    /\ items' = Append(items, arg[t])
    /\ capacity' = IF capacity > 0 THEN capacity - 1 ELSE capacity
    /\ err' = [err EXCEPT ![t] = Nil]
    /\ pc' = [pc EXCEPT ![t] = "unlock"]
    /\ enqLog' = Append(enqLog, arg[t])
    /\ UNCHANGED <<mu, newvars, op, arg, ret, snap,
                   deqLog, nEnqOk, nDeqOk, nCalls, drv>>

\* q.items = append(q.items, val); return nil
EnqueueAppend(t) ==
    /\ pc[t] = "act" /\ op[t] = "Enqueue"
    /\ items' = Append(items, arg[t])
    /\ err' = [err EXCEPT ![t] = Nil]
    /\ pc' = [pc EXCEPT ![t] = "unlock"]
    /\ enqLog' = Append(enqLog, arg[t])
    /\ UNCHANGED <<capacity, mu, newvars, op, arg, ret, snap,
                   deqLog, nEnqOk, nDeqOk, nCalls, drv>>

(* ------------------------------ Dequeue ------------------------------- *)

\* Variant: the emptiness test never succeeds.
IsEmptyNever(s) == Len(s) < 0

\* len(q.items) == 0
IsEmpty(s) == Len(s) = 0

\* Variant: the newest element is taken (LIFO).
FrontLast(s) == s[Len(s)]

\* q.items[0]
Front(s) == s[1]

\* Variant: the slice is not advanced.
RestAll(s) == s

\* Variant: the slice drops its last element instead of its first.
RestInit(s) == SubSeq(s, 1, Len(s) - 1)

\* q.items[1:]
Rest(s) == SubSeq(s, 2, Len(s))

\* Variant: Dequeue waits, holding q.mu, until there is an item.
DequeueTestBlocking(t) ==
    /\ pc[t] = "test" /\ op[t] = "Dequeue"
    /\ ~IsEmpty(items)
    /\ pc' = [pc EXCEPT ![t] = "act"]
    /\ UNCHANGED <<qvars, newvars, op, arg, ret, err, snap, hvars, drv>>

DequeueTest(t) ==
    /\ pc[t] = "test" /\ op[t] = "Dequeue"
    /\ IF IsEmpty(items)
       THEN /\ ret' = [ret EXCEPT ![t] = Zero]
            /\ err' = [err EXCEPT ![t] = ErrUnderflow]
            /\ pc' = [pc EXCEPT ![t] = "unlock"]
       ELSE /\ pc' = [pc EXCEPT ![t] = "act"]
            /\ UNCHANGED <<ret, err>>
    /\ UNCHANGED <<qvars, newvars, op, arg, snap, hvars, drv>>

\* result := q.items[0]
DequeueRead(t) ==
    /\ pc[t] = "act" /\ op[t] = "Dequeue"
    /\ items # <<>>          \* an index out of range panics; never reached under q.mu
    /\ ret' = [ret EXCEPT ![t] = Front(items)]
    /\ pc' = [pc EXCEPT ![t] = "slice"]
    /\ UNCHANGED <<qvars, newvars, op, arg, err, snap, hvars, drv>>

\* q.items = q.items[1:]; return result, nil
DequeueRemove(t) ==
    /\ pc[t] = "slice" /\ op[t] = "Dequeue"
    /\ items # <<>>          \* slice bounds out of range panics; never reached under q.mu
    /\ items' = Rest(items)
    /\ err' = [err EXCEPT ![t] = Nil]
    /\ pc' = [pc EXCEPT ![t] = "unlock"]
    /\ deqLog' = Append(deqLog, ret[t])
    /\ UNCHANGED <<capacity, mu, newvars, op, arg, ret, snap,
                   enqLog, nEnqOk, nDeqOk, nCalls, drv>>

(* -------------------------------- Size -------------------------------- *)

\* return len(q.items)
SizeRead(t) ==
    /\ pc[t] = "test" /\ op[t] = "Size"
    /\ ret' = [ret EXCEPT ![t] = Len(items)]
    /\ err' = [err EXCEPT ![t] = Nil]
    /\ pc' = [pc EXCEPT ![t] = "unlock"]
    /\ UNCHANGED <<qvars, newvars, op, arg, snap, hvars, drv>>

(* -------------------------------- Peek -------------------------------- *)

\* sz := len(q.items); if sz == 0 { return zero, ErrUnderflow }
PeekTest(t) ==
    /\ pc[t] = "test" /\ op[t] = "Peek"
    /\ IF IsEmpty(items)
       THEN /\ ret' = [ret EXCEPT ![t] = Zero]
            /\ err' = [err EXCEPT ![t] = ErrUnderflow]
            /\ pc' = [pc EXCEPT ![t] = "unlock"]
       ELSE /\ pc' = [pc EXCEPT ![t] = "act"]
            /\ UNCHANGED <<ret, err>>
    /\ UNCHANGED <<qvars, newvars, op, arg, snap, hvars, drv>>

\* Variant: Peek removes the element it returns.
PeekReadPop(t) ==
    /\ pc[t] = "act" /\ op[t] = "Peek"
    /\ items # <<>>
    /\ ret' = [ret EXCEPT ![t] = Front(items)]
    /\ items' = Rest(items)
    /\ err' = [err EXCEPT ![t] = Nil]
    /\ pc' = [pc EXCEPT ![t] = "unlock"]
    /\ UNCHANGED <<capacity, mu, newvars, op, arg, snap, hvars, drv>>

\* return q.items[0], nil
PeekRead(t) ==
    /\ pc[t] = "act" /\ op[t] = "Peek"
    /\ items # <<>>          \* an index out of range panics; never reached under q.mu
    /\ ret' = [ret EXCEPT ![t] = Front(items)]
    /\ err' = [err EXCEPT ![t] = Nil]
    /\ pc' = [pc EXCEPT ![t] = "unlock"]
    /\ UNCHANGED <<qvars, newvars, op, arg, snap, hvars, drv>>

\* One statement of the method goroutine t is running.
Step(t) ==
    \/ Acquire(t)
    \/ EnqueueTest(t) \/ EnqueueAppend(t)
    \/ DequeueTest(t) \/ DequeueRead(t) \/ DequeueRemove(t)
    \/ SizeRead(t)
    \/ PeekTest(t) \/ PeekRead(t)
    \/ Release(t)

(* ------------------------------ callers ------------------------------- *)

NoErr == "unset"

\* A goroutine calls method m (with val = v for Enqueue) on the built queue.
Call(t, m, v) ==
    /\ phase = "ready"
    /\ pc[t] = "idle"
    /\ pc'  = [pc  EXCEPT ![t] = "lock"]
    /\ op'  = [op  EXCEPT ![t] = m]
    /\ arg' = [arg EXCEPT ![t] = IF m = "Enqueue" THEN v ELSE Zero]
    /\ ret' = [ret EXCEPT ![t] = NoVal]
    /\ err' = [err EXCEPT ![t] = NoErr]
    /\ nCalls' = nCalls + 1
    /\ UNCHANGED <<qvars, newvars, snap, enqLog, deqLog, nEnqOk, nDeqOk>>

\* The caller takes the results and counts the successes, as the stress
\* tests do with successfulEnqueues / successfulDequeues.
Took(t) ==
    /\ pc[t] = "returned"
    /\ pc'  = [pc  EXCEPT ![t] = "idle"]
    /\ nEnqOk' = IF op[t] = "Enqueue" /\ err[t] = Nil THEN nEnqOk + 1 ELSE nEnqOk
    /\ nDeqOk' = IF op[t] = "Dequeue" /\ err[t] = Nil THEN nDeqOk + 1 ELSE nDeqOk
    /\ op'  = [op  EXCEPT ![t] = "Size"]      \* the call's frame is gone
    /\ arg' = [arg EXCEPT ![t] = Zero]
    /\ ret' = [ret EXCEPT ![t] = NoVal]
    /\ err' = [err EXCEPT ![t] = NoErr]
    /\ UNCHANGED <<qvars, newvars, snap, enqLog, deqLog, nCalls>>

\* Goroutines calling any method with any value, in any interleaving.
Invoke(t) ==
    /\ nCalls < MaxCalls
    /\ \E m \in Methods, v \in Vals :
          /\ (m # "Enqueue" => v = Zero)
          /\ Call(t, m, v)
    /\ UNCHANGED drv

Return(t) == Took(t) /\ UNCHANGED drv

InitQueue ==
    /\ capacity = 0
    /\ items = <<>>
    /\ mu = [writer |-> NoThread, readers |-> {}]
    /\ phase = "args"
    /\ opts = <<>>
    /\ pc   = [t \in Threads |-> "idle"]
    /\ op   = [t \in Threads |-> "Size"]
    /\ arg  = [t \in Threads |-> Zero]
    /\ ret  = [t \in Threads |-> NoVal]
    /\ err  = [t \in Threads |-> NoErr]
    /\ snap = [t \in Threads |-> <<>>]
    /\ enqLog = <<>>
    /\ deqLog = <<>>
    /\ nEnqOk = 0
    /\ nDeqOk = 0
    /\ nCalls = 0

Free == [stage |-> "free"]

Init ==
    /\ InitQueue
    /\ args \in SeqsUpTo(CapArgs, MaxOpts)
    /\ drv = Free

Next ==
    \/ Construct
    \/ \E t \in Threads : Invoke(t) \/ Step(t) \/ Return(t)

Spec == Init /\ [][Next]_vars

(* ------------------------------ typing -------------------------------- *)
TypeOK ==
    /\ capacity \in UnlimitedCapacity..MaxCap
    /\ items \in Seq(Nat)
    /\ mu.writer \in Threads \cup {NoThread}
    /\ mu.readers \subseteq Threads
    /\ phase \in {"args", "opts", "ready", "panicked"}
    /\ pc \in [Threads -> {"idle", "lock", "test", "act", "slice", "unlock", "returned"}]
    /\ op \in [Threads -> Methods]
    /\ err \in [Threads -> {NoErr, Nil, ErrOverflow, ErrUnderflow}]

(* ======================= properties of Spec =========================== *)

\* Goroutine t is at its deferred unlock, still holding q.mu, running m.
AtUnlock(t, m) == pc[t] = "unlock" /\ op[t] = m

\* C1: with a finite capacity k >= 0, in every reachable state and under
\* every interleaving, 0 <= len(items) <= k; two Enqueues racing on a queue
\* holding k-1 items never both succeed.
C1_CapacityBound ==
    capacity >= 0 => (0 <= Len(items) /\ Len(items) <= capacity)

\* One Enqueue has passed the capacity test on a queue holding k-1 items
\* while another Enqueue is waiting for q.mu.
C1_Witness ==
    \E t, u \in Threads :
        /\ t # u
        /\ op[t] = "Enqueue" /\ pc[t] = "act"
        /\ op[u] = "Enqueue" /\ pc[u] = "lock"
        /\ capacity >= 1 /\ Len(items) = capacity - 1

\* C3: once all calls have returned, Size() equals the number of Enqueues
\* that returned nil minus the number of Dequeues that returned nil, and
\* that value is >= 0 and, for a bounded queue, <= capacity.
C3_SizeIsEnqMinusDeq ==
    /\ (\A t \in Threads : pc[t] = "idle") =>
          /\ Len(items) = nEnqOk - nDeqOk
          /\ Len(items) >= 0
          /\ (capacity >= 0 => Len(items) <= capacity)
    /\ \A t \in Threads :
          (AtUnlock(t, "Size") /\ \A u \in Threads \ {t} : pc[u] = "idle") =>
              /\ ret[t] = nEnqOk - nDeqOk
              /\ ret[t] >= 0
              /\ (capacity >= 0 => ret[t] <= capacity)

\* A Size call made after all other calls returned, on a bounded queue that
\* has seen successful Enqueues and a successful Dequeue, and is not empty.
C3_Witness ==
    \E t \in Threads :
        /\ AtUnlock(t, "Size")
        /\ \A u \in Threads \ {t} : pc[u] = "idle"
        /\ nDeqOk >= 1 /\ ret[t] >= 1 /\ capacity >= 1

\* C4: Enqueue(v) returns ErrOverflow iff the capacity is finite and the size
\* equals the capacity when Enqueue holds the lock, and then items is
\* unchanged; otherwise it returns nil, v is the last element, the earlier
\* elements keep their positions and the size grows by exactly 1.  The test
\* is on the current size, not on the number of Enqueues made so far.
C4_EnqueueOutcome ==
    \A t \in Threads :
        AtUnlock(t, "Enqueue") =>
            LET full == capacity >= 0 /\ Len(snap[t]) = capacity
            IN  /\ (err[t] = ErrOverflow) <=> full
                /\ full => items = snap[t]
                /\ ~full => /\ err[t] = Nil
                            /\ Len(items) = Len(snap[t]) + 1
                            /\ items[Len(items)] = arg[t]
                            /\ SubSeq(items, 1, Len(snap[t])) = snap[t]

\* An Enqueue succeeds on a bounded queue that has already accepted more
\* values than its capacity, while an earlier Enqueue was refused.
C4_Witness ==
    \E t, u \in Threads :
        /\ AtUnlock(t, "Enqueue") /\ err[t] = Nil
        /\ capacity >= 1 /\ Len(enqLog) > capacity
        /\ pc[u] = "returned" /\ op[u] = "Enqueue" /\ err[u] = ErrOverflow

\* C6: Dequeue on a non-empty queue returns a nil error and the front
\* element (the earliest enqueued element not yet dequeued), removes only
\* that element, decreases the size by exactly 1 and keeps the order of
\* the remaining elements.
C6_DequeueFront ==
    \A t \in Threads :
        (AtUnlock(t, "Dequeue") /\ snap[t] # <<>>) =>
            /\ err[t] = Nil
            /\ ret[t] = snap[t][1]
            /\ ret[t] = enqLog[Len(deqLog)]
            /\ Len(items) = Len(snap[t]) - 1
            /\ \A i \in 1..Len(items) : items[i] = snap[t][i + 1]

\* A Dequeue has removed the front of a queue of two different values.
C6_Witness ==
    \E t \in Threads :
        /\ AtUnlock(t, "Dequeue")
        /\ Len(snap[t]) >= 2 /\ snap[t][1] # snap[t][2]

\* C10: under any interleaving the values returned by successful Dequeues,
\* in the order they held the lock, are a prefix of the values enqueued, in
\* the order they held the lock, and items is exactly the remaining suffix.
C10_DequeuedIsPrefix ==
    /\ IsPrefix(deqLog, enqLog)
    /\ enqLog = deqLog \o items

\* Both goroutines have enqueued, different values, one has been dequeued
\* and one remains.
C10_Witness ==
    /\ Len(deqLog) >= 1 /\ Len(items) >= 1
    /\ deqLog[1] # items[1]
    /\ \E t, u \in Threads :
          /\ t # u
          /\ op[t] = "Enqueue" /\ pc[t] = "returned"
          /\ AtUnlock(u, "Dequeue")

\* Goroutine t executes one statement of the method it is running.
Moves(t) == pc[t] \in {"lock", "test", "act", "slice", "unlock"} /\ pc'[t] # pc[t]

\* C7: Dequeue and Peek on an empty queue (new, emptied again, or of
\* capacity 0) return ErrUnderflow and the zero value of T, never a value
\* stored earlier, and leave items and capacity unchanged.
C7_UnderflowOnEmpty ==
    [][\A t \in Threads :
          ( /\ op[t] \in {"Dequeue", "Peek"}
            /\ pc[t] = "test" /\ items = <<>>
            /\ Moves(t) ) =>
              /\ err'[t] = ErrUnderflow
              /\ ret'[t] = 0
              /\ pc'[t] = "unlock"
              /\ items' = <<>>
              /\ capacity' = capacity]_vars

\* A Dequeue and a Peek have both underflowed on a queue that held a
\* non-zero value before it was emptied again.
C7_Witness ==
    \E t, u \in Threads :
        /\ op[t] = "Dequeue" /\ pc[t] \in {"unlock", "returned"}
        /\ err[t] = ErrUnderflow /\ ret[t] = 0
        /\ op[u] = "Peek" /\ pc[u] \in {"unlock", "returned"}
        /\ err[u] = ErrUnderflow /\ ret[u] = 0
        /\ deqLog # <<>> /\ deqLog[1] # 0
        /\ items = <<>>

(* =================== sequential callers (the tests) =================== *)

Main == 1            \* the goroutine running a sequential test

\* One completed call, as the test sees it.
Outcome(t) == [m |-> op[t], arg |-> arg[t], val |-> ret[t], err |-> err[t]]

\* The sequential test takes the results of the call it made.
ScriptTake ==
    /\ Took(Main)
    /\ drv' = [drv EXCEPT !.hist = Append(@, Outcome(Main))]

InitScript(stage) ==
    /\ InitQueue
    /\ args \in SeqsUpTo(CapArgs, MaxOpts)
    /\ drv = [stage |-> stage, hist |-> <<>>]

\* The calls of method m in a history, in order.
CallsOf(h, m) == SelectSeq(h, LAMBDA c : c.m = m)

\* The values whose Enqueue returned nil, in call order.
Sent(h) ==
    LET ok == SelectSeq(h, LAMBDA c : c.m = "Enqueue" /\ c.err = Nil)
    IN  [i \in 1..Len(ok) |-> ok[i].arg]

(* ------ TestFIFOBehavior: enqueue distinct values, then dequeue ------- *)

FIFOVals == 1..MaxFill

\* for _, v := range values { q.Enqueue(v) }
FIFOFill ==
    /\ drv.stage = "fill"
    /\ Len(drv.hist) < MaxFill
    /\ \E v \in FIFOVals :
          /\ \A i \in 1..Len(drv.hist) : drv.hist[i].arg # v
          /\ Call(Main, "Enqueue", v)
    /\ UNCHANGED drv

\* for i, expected := range values { q.Dequeue() }: one call per value sent
FIFODrain ==
    /\ drv.stage \in {"fill", "drain"}
    /\ pc[Main] = "idle"
    /\ Len(CallsOf(drv.hist, "Dequeue")) < Len(Sent(drv.hist))
    /\ Call(Main, "Dequeue", Zero)
    /\ drv' = [drv EXCEPT !.stage = "drain"]

\* the final q.Size()
FIFOSize ==
    /\ drv.stage \in {"fill", "drain"}
    /\ pc[Main] = "idle"
    /\ Len(CallsOf(drv.hist, "Dequeue")) = Len(Sent(drv.hist))
    /\ Call(Main, "Size", Zero)
    /\ drv' = [drv EXCEPT !.stage = "size"]

InitFIFO == InitScript("fill")

NextFIFO ==
    \/ Construct
    \/ FIFOFill \/ FIFODrain \/ FIFOSize \/ ScriptTake
    \/ Acquire(Main) \/ Release(Main)
    \/ EnqueueTest(Main) \/ EnqueueAppend(Main)
    \/ DequeueTest(Main) \/ DequeueRead(Main) \/ DequeueRemove(Main)
    \/ SizeRead(Main)

SpecFIFO == InitFIFO /\ [][NextFIFO]_vars

\* C2: for N distinct values v1..vN enqueued successfully in that order
\* with no Dequeue in between, the next N Dequeues all succeed and return
\* v1..vN in that order, after which Size is 0.
C2_FIFOOrder ==
    LET sent == Sent(drv.hist)
        got  == CallsOf(drv.hist, "Dequeue")
    IN  /\ \A i \in 1..Len(got) : got[i].err = Nil /\ got[i].val = sent[i]
        /\ (drv.stage = "size" /\ pc[Main] = "idle") =>
              /\ Len(got) = Len(sent)
              /\ drv.hist[Len(drv.hist)].m = "Size"
              /\ drv.hist[Len(drv.hist)].val = 0

\* The test has finished with MaxFill distinct values sent and dequeued.
C2_Witness ==
    /\ drv.stage = "size" /\ pc[Main] = "idle"
    /\ Len(Sent(drv.hist)) = MaxFill
    /\ Len(CallsOf(drv.hist, "Dequeue")) = MaxFill
    /\ Sent(drv.hist)[1] > Sent(drv.hist)[2]

(* ---- TestCapacityOverflow: for a queue built with capacity k >= 0 ---- *)

\* The method of the i-th call: k+1 Enqueues, Size, Dequeue, Size, Enqueue.
CapScript(k, i) ==
    IF i <= k + 1 THEN "Enqueue"
    ELSE IF i = k + 2 THEN "Size"
    ELSE IF i = k + 3 THEN "Dequeue"
    ELSE IF i = k + 4 THEN "Size"
    ELSE "Enqueue"

CapCall ==
    /\ drv.stage = "cap"
    /\ capacity >= 0
    /\ Len(drv.hist) < capacity + 5
    /\ LET m == CapScript(capacity, Len(drv.hist) + 1)
       IN  \E v \in Vals :
              /\ (m # "Enqueue" => v = Zero)
              /\ Call(Main, m, v)
    /\ UNCHANGED drv

InitCap == InitScript("cap")

NextCap ==
    \/ Construct
    \/ CapCall \/ ScriptTake
    \/ Acquire(Main) \/ Release(Main)
    \/ EnqueueTest(Main) \/ EnqueueAppend(Main)
    \/ DequeueTest(Main) \/ DequeueRead(Main) \/ DequeueRemove(Main)
    \/ SizeRead(Main)

SpecCap == InitCap /\ [][NextCap]_vars

\* What the overflow-boundary property says of the i-th call's outcome c.
CapExpected(k, i, c) ==
    /\ i <= k     => c.err = Nil
    /\ i = k + 1  => c.err = ErrOverflow
    /\ i = k + 2  => c.val = k
    /\ i = k + 4  => c.val = k - 1
    /\ i = k + 5  => c.err = Nil

\* C5 as stated: a queue of capacity k accepts exactly k Enqueues, the
\* (k+1)th fails with ErrOverflow and leaves Size at k; after one Dequeue
\* Size is k-1 and a further Enqueue succeeds, for every finite k >= 0.
C5_Original ==
    capacity >= 0 =>
        \A i \in 1..Len(drv.hist) : CapExpected(capacity, i, drv.hist[i])

\* C5 amended: the first half holds for every k >= 0; the second half
\* (after one Dequeue Size is k-1 and a further Enqueue succeeds) holds
\* for every k >= 1.
C5_OverflowBoundary ==
    capacity >= 0 =>
        \A i \in 1..Len(drv.hist) :
            (i <= capacity + 2 \/ capacity >= 1) =>
                CapExpected(capacity, i, drv.hist[i])

\* The whole script has run on a queue of capacity at least 2.
C5_Witness ==
    /\ drv.stage = "cap"
    /\ capacity >= 2
    /\ Len(drv.hist) = capacity + 5

(* ------- TestPeek: any sequence of calls made by one goroutine -------- *)

SeqCall ==
    /\ drv.stage = "seq"
    /\ nCalls < MaxCalls
    /\ \E m \in Methods, v \in Vals :
          /\ (m # "Enqueue" => v = Zero)
          /\ Call(Main, m, v)
    /\ UNCHANGED drv

InitSeq == InitScript("seq")

NextSeq == Construct \/ SeqCall \/ ScriptTake \/ Step(Main)

SpecSeq == InitSeq /\ [][NextSeq]_vars

\* Calls i..j of history h are all Peek or Size calls.
ReadOnlyRun(h, i, j) == \A k \in i..j : h[k].m \in {"Peek", "Size"}

\* Within a run of Peek and Size calls all Peeks agree and all Sizes agree,
\* and a Dequeue that follows the run returns what the Peeks returned.
ReadsAgree(h) ==
    \A i, j \in 1..Len(h) :
        (i < j /\ ReadOnlyRun(h, i, j - 1)) =>
            /\ (h[i].m = "Peek" /\ h[j].m \in {"Peek", "Dequeue"}) =>
                  (h[j].val = h[i].val /\ h[j].err = h[i].err)
            /\ (h[i].m = "Size" /\ h[j].m = "Size") => h[j].val = h[i].val

\* C8: Peek and Size never mutate the queue: any number of Peek or Size
\* calls changes neither items nor Size, and on a non-empty queue Peek
\* returns a nil error and the value that the next Dequeue returns when no
\* other operation intervenes.
C8_PeekSizeReadOnly ==
    [][ /\ (op[Main] \in {"Peek", "Size"} /\ Moves(Main)) =>
              (items' = items /\ capacity' = capacity)
        /\ (AtUnlock(Main, "Peek") /\ items # <<>>)' =>
              (err[Main] = Nil /\ ret[Main] = items[1])'
        /\ ReadsAgree(drv.hist)' ]_vars

\* Enqueue of a non-zero value, then two Peeks, then a Dequeue returning it.
C8_Witness ==
    /\ Len(drv.hist) >= 4
    /\ drv.hist[1].m = "Enqueue" /\ drv.hist[1].arg # 0 /\ drv.hist[1].err = Nil
    /\ drv.hist[2].m = "Peek" /\ drv.hist[2].val = drv.hist[1].arg
    /\ drv.hist[3].m = "Peek"
    /\ drv.hist[4].m = "Dequeue" /\ drv.hist[4].err = Nil

(* --- TestConcurrency: G goroutines enqueue, then G goroutines dequeue - *)

\* go func(start int) { for j { _ = q.Enqueue(start*numOperations + j) } }(i)
ConcEnqueue(t) ==
    /\ drv.stage = "enq"
    /\ capacity = UnlimitedCapacity
    /\ drv.done[t] < ConcM
    /\ Call(t, "Enqueue", (t - 1) * ConcM + drv.done[t])
    /\ UNCHANGED drv

ConcEnqueued(t) ==
    /\ drv.stage = "enq"
    /\ Took(t)
    /\ drv' = [drv EXCEPT !.done[t] = @ + 1,
                          !.enqFail = IF err[t] = Nil THEN @ ELSE @ + 1]

\* wg.Wait(); q.Size()
ConcWait ==
    /\ drv.stage \in {"enq", "deq"}
    /\ \A t \in Threads : drv.done[t] = ConcM /\ pc[t] = "idle"
    /\ Call(Main, "Size", Zero)
    /\ drv' = [drv EXCEPT !.stage = IF @ = "enq" THEN "size1" ELSE "size2"]

ConcSized ==
    /\ drv.stage \in {"size1", "size2"}
    /\ Took(Main)
    /\ drv' = [drv EXCEPT !.sizes = Append(@, ret[Main]),
                          !.done = [t \in Threads |-> 0],
                          !.stage = IF @ = "size1" THEN "deq" ELSE "done"]

\* go func() { for j { if val, err := q.Dequeue(); err == nil { results <- val } } }()
\* The results channel is kept as the test reads it: a count and a seen set.
ConcDequeue(t) ==
    /\ drv.stage = "deq"
    /\ drv.done[t] < ConcM
    /\ Call(t, "Dequeue", Zero)
    /\ UNCHANGED drv

ConcDequeued(t) ==
    /\ drv.stage = "deq"
    /\ Took(t)
    /\ drv' = [drv EXCEPT !.done[t] = @ + 1,
                          !.count = IF err[t] = Nil THEN @ + 1 ELSE @,
                          !.seen = IF err[t] = Nil THEN @ \cup {ret[t]} ELSE @,
                          !.deqFail = IF err[t] = Nil THEN @ ELSE @ + 1]

InitConc ==
    /\ InitQueue
    /\ args \in SeqsUpTo(CapArgs, MaxOpts)
    /\ drv = [stage |-> "enq", done |-> [t \in Threads |-> 0], enqFail |-> 0,
              deqFail |-> 0, count |-> 0, seen |-> {}, sizes |-> <<>>]

NextConc ==
    \/ Construct
    \/ ConcWait \/ ConcSized
    \/ \E t \in Threads :
          \/ ConcEnqueue(t) \/ ConcEnqueued(t)
          \/ ConcDequeue(t) \/ ConcDequeued(t)
          \/ Acquire(t) \/ Release(t)
          \/ EnqueueTest(t) \/ EnqueueAppend(t)
          \/ DequeueTest(t) \/ DequeueRead(t) \/ DequeueRemove(t)
          \/ SizeRead(t)

SpecConc == InitConc /\ [][NextConc]_vars

\* C9: when G goroutines each Enqueue M values of their own range on an
\* unbounded queue, every Enqueue succeeds and Size is then G*M; when G
\* goroutines then each make M Dequeues, every Dequeue succeeds, the values
\* retrieved are exactly the G*M values, none twice and none lost, and the
\* final Size is 0.
C9_ConcurrentIntegrity ==
    LET total == NumThreads * ConcM
    IN  /\ drv.enqFail = 0
        /\ drv.deqFail = 0
        /\ Cardinality(drv.seen) = drv.count
        /\ drv.seen \subseteq 0..(total - 1)
        /\ Len(drv.sizes) >= 1 => drv.sizes[1] = total
        /\ drv.stage \in {"size2", "done"} => drv.count = total
        /\ drv.stage = "done" => drv.sizes[2] = 0

\* The test has finished and the values did not come out goroutine by
\* goroutine: the first value removed was enqueued by the last goroutine.
C9_Witness ==
    /\ drv.stage = "done"
    /\ drv.count = NumThreads * ConcM
    /\ deqLog[1] >= (NumThreads - 1) * ConcM

(* ================== further properties of Spec ======================== *)

\* C11: for a queue built with WithCapacity(0), every Enqueue fails with
\* ErrOverflow and Size is 0 in every reachable state, whatever is called
\* and however the calls interleave.
C11_ZeroCapacity ==
    (phase = "ready" /\ capacity = 0) =>
        /\ Len(items) = 0
        /\ \A t \in Threads :
              /\ (op[t] = "Enqueue" /\ pc[t] \in {"act", "unlock", "returned"}) =>
                    (pc[t] # "act" /\ err[t] = ErrOverflow)
              /\ (op[t] = "Size" /\ pc[t] \in {"unlock", "returned"}) => ret[t] = 0

\* On a queue of capacity 0 one Enqueue has been refused while another
\* goroutine reads the size, after several calls.
C11_Witness ==
    /\ phase = "ready" /\ capacity = 0 /\ nCalls >= 3
    /\ \E t, u \in Threads :
          /\ op[t] = "Enqueue" /\ pc[t] = "returned" /\ err[t] = ErrOverflow
          /\ AtUnlock(u, "Size") /\ ret[u] = 0

(* ------- construction followed by calls from a single goroutine ------ *)

\* The option values New was called with, in argument order.
Given == drv.given

Last(s) == s[Len(s)]

NewCall ==
    /\ drv.stage = "new"
    /\ nCalls < MaxCalls
    /\ \E m \in Methods, v \in Vals :
          /\ (m # "Enqueue" => v = Zero)
          /\ Call(Main, m, v)
    /\ UNCHANGED drv

InitNew ==
    /\ InitQueue
    /\ args \in SeqsUpTo(CapArgs, MaxOpts)
    /\ drv = [stage |-> "new", given |-> args]

NextNew == Construct \/ NewCall \/ Return(Main) \/ Step(Main)

SpecNew == InitNew /\ [][NextNew]_vars

\* Every value New was called with is a capacity WithCapacity documents.
AllValid(s) == \A i \in 1..Len(s) : s[i] >= -1

\* C12: a queue built with no options, or with WithCapacity(UnlimitedCapacity)
\* as the last option, is unbounded: no Enqueue returns ErrOverflow whatever
\* the size, and Size is the number of values enqueued and not yet dequeued.
C12_Unbounded ==
    (phase = "ready" /\ (Given = <<>> \/ Last(Given) = -1)) =>
        /\ capacity = -1
        /\ err[Main] # ErrOverflow
        /\ (op[Main] = "Enqueue" /\ pc[Main] \in {"unlock", "returned"}) =>
              err[Main] = Nil
        /\ pc[Main] = "idle" => Len(items) = nEnqOk - nDeqOk
        /\ AtUnlock(Main, "Size") => ret[Main] = nEnqOk - nDeqOk

\* A queue whose option list ends with WithCapacity(-1) after a finite
\* capacity holds more values than that capacity and accepts one more.
C12_Witness ==
    /\ phase = "ready"
    /\ Len(Given) >= 2 /\ Last(Given) = -1 /\ Given[1] >= 0
    /\ AtUnlock(Main, "Enqueue") /\ err[Main] = Nil
    /\ Len(items) > Given[1] + 1
    /\ nDeqOk >= 1

\* C13: when New is given several WithCapacity options with valid values
\* they are applied in argument order and the capacity is the value of the
\* last one (WithCapacity(5), WithCapacity(3) accepts exactly 3 items);
\* earlier options leave no trace.
C13_LastOptionWins ==
    (phase = "ready" /\ Given # <<>>) =>
        /\ AllValid(Given)
        /\ capacity = Last(Given)
        /\ Last(Given) >= 0 => Len(items) <= Last(Given)
        /\ AtUnlock(Main, "Enqueue") =>
              ((err[Main] = ErrOverflow) <=>
                  (Last(Given) >= 0 /\ Len(snap[Main]) = Last(Given)))

\* New was given a larger capacity first and a smaller one last; the queue
\* holds as many values as the last one allows and refuses the next.
C13_Witness ==
    /\ phase = "ready"
    /\ Len(Given) >= 2 /\ Given[1] > Last(Given) /\ Last(Given) >= 1
    /\ AtUnlock(Main, "Enqueue") /\ err[Main] = ErrOverflow
    /\ Len(items) = Last(Given)

\* The options newQueue has applied so far (the last one may have panicked).
Applied == Len(Given) - Len(opts)

\* C14: a capacity value strictly less than UnlimitedCapacity (-1) aborts
\* construction with a panic: New returns no usable queue for it and no
\* ErrOverflow or ErrUnderflow is produced; -1 and every n >= 0 never panic.
C14_InvalidCapacityPanics ==
    /\ phase = "ready" => AllValid(Given)
    /\ phase = "opts" => \A i \in 1..Applied : Given[i] >= -1
    /\ AllValid(Given) => phase # "panicked"
    /\ phase = "panicked" =>
          /\ nCalls = 0
          /\ \A t \in Threads : pc[t] = "idle" /\ err[t] = NoErr

\* New(WithCapacity(n)) with a single n < -1 has panicked.
C14_Witness ==
    /\ phase = "panicked"
    /\ Len(Given) = 1 /\ Given[1] < -1

InCS(t) == pc[t] \in {"test", "act", "slice", "unlock"}

\* C15: mutual exclusion: an Enqueue or Dequeue is never inside its critical
\* section together with any other Enqueue, Dequeue, Peek or Size; only
\* Peek and Size may overlap with one another.
C15_MutualExclusion ==
    \A t, u \in Threads :
        (t # u /\ InCS(t) /\ InCS(u)) =>
            (op[t] \in {"Peek", "Size"} /\ op[u] \in {"Peek", "Size"})

\* A Peek and a Size are inside their critical sections together, while
\* the queue is not empty.
C15_Witness ==
    \E t, u \in Threads :
        /\ t # u
        /\ InCS(t) /\ op[t] = "Peek"
        /\ InCS(u) /\ op[u] = "Size"
        /\ items # <<>>

\* C17: the capacity is fixed once New has returned: no Enqueue, Dequeue,
\* Peek or Size call, successful or failing, ever changes it.
C17_CapacityImmutable ==
    [][phase = "ready" => (capacity' = capacity /\ phase' = "ready")]_vars

\* On a bounded queue an Enqueue has succeeded, a Dequeue has succeeded and
\* an Enqueue has just been refused.
C17_Witness ==
    /\ phase = "ready" /\ capacity >= 1
    /\ nEnqOk >= 1 /\ nDeqOk >= 1
    /\ \E t \in Threads : AtUnlock(t, "Enqueue") /\ err[t] = ErrOverflow

\* C20: under concurrent writers every Size call returns len(items) of some
\* state between its invocation and its return, and every Peek call returns
\* the front element (or ErrUnderflow when empty) of such a state; neither
\* returns a value the queue did not have during the call.  The state is
\* the one in which the call holds the read lock with its result computed.
C20_ReadsAreCurrent ==
    \A t \in Threads :
        /\ AtUnlock(t, "Size") => (ret[t] = Len(items) /\ err[t] = Nil)
        /\ AtUnlock(t, "Peek") =>
              \/ items = <<>> /\ err[t] = ErrUnderflow /\ ret[t] = 0
              \/ items # <<>> /\ err[t] = Nil /\ ret[t] = items[1]
        /\ (op[t] = "Peek" /\ pc[t] = "act") => (items # <<>> /\ items = snap[t])

\* A Peek holds the read lock with the front of a queue of two different
\* values as its result, while a Dequeue is waiting for the lock.
C20_Witness ==
    \E t, u \in Threads :
        /\ AtUnlock(t, "Peek") /\ err[t] = Nil /\ ret[t] = items[1]
        /\ Len(items) >= 2 /\ items[2] # items[1]
        /\ pc[u] = "lock" /\ op[u] = "Dequeue"

\* C18: WithCapacity(cap) with cap < UnlimitedCapacity itself panics, as its
\* documentation states, rather than returning an Option: no Option that
\* carries such a value ever exists.
C18_CallItselfPanics ==
    \A i \in 1..Len(opts) : opts[i].cap >= -1

(* ------------------------- fair scheduling ---------------------------- *)

\* The Go scheduler runs every runnable goroutine, and a goroutine blocked
\* in Lock or RLock is woken when q.mu becomes available to it.
Fairness ==
    \A t \in Threads :
        /\ WF_vars(pc[t] # "lock" /\ Step(t))
        /\ SF_vars(Acquire(t))

\* Goroutines calling the methods of a queue built with at most one option,
\* FairCalls calls in all.
FairCalls == 2

FairInvoke(t) == nCalls < FairCalls /\ Invoke(t)

InitFair ==
    /\ InitQueue
    /\ args \in SeqsUpTo(CapArgs, 1)
    /\ drv = Free

NextFair ==
    \/ Construct
    \/ \E t \in Threads : FairInvoke(t) \/ Step(t) \/ Return(t)

SpecFair == InitFair /\ [][NextFair]_vars /\ Fairness

\* C16: no operation waits for the queue's contents to change: a call that
\* holds the lock always has a next statement to execute (Dequeue on an empty
\* queue and Enqueue on a full queue go to their error return), and under
\* fair lock acquisition every invoked Enqueue, Dequeue, Peek and Size
\* eventually returns, even if no other goroutine ever calls anything.
C16_NeverWaits ==
    /\ [](\A t \in Threads : InCS(t) => ENABLED Step(t))
    /\ \A t \in Threads : (pc[t] = "lock") ~> (pc[t] = "returned")

\* A Dequeue has returned ErrUnderflow and an Enqueue has returned
\* ErrOverflow on a queue of capacity 0, with nothing else in progress.
C16_Witness ==
    /\ capacity = 0 /\ phase = "ready"
    /\ \E t, u \in Threads :
          /\ pc[t] = "returned" /\ op[t] = "Dequeue" /\ err[t] = ErrUnderflow
          /\ pc[u] = "returned" /\ op[u] = "Enqueue" /\ err[u] = ErrOverflow

(* ------------------------- release of q.mu ---------------------------- *)

\* The goroutines that hold q.mu for writing / for reading.
Writers == {t \in Threads : InCS(t) /\ Exclusive(op[t])}
Readers == {t \in Threads : InCS(t) /\ ~Exclusive(op[t])}

\* C21: every return path of Enqueue, Dequeue, Peek and Size, the
\* ErrOverflow and ErrUnderflow paths included, releases the lock it
\* acquired: q.mu is held exactly by the calls that are between their
\* Lock/RLock and their return, so whenever no operation is in progress the
\* lock is free (no writer, no reader), and when goroutines wait for the
\* lock while nobody holds it, one of them can take it: the goroutines are
\* never all stuck waiting.
C21_LockReleased ==
    /\ mu.readers = Readers
    /\ mu.writer = (IF Writers = {} THEN NoThread ELSE CHOOSE t \in Writers : TRUE)
    /\ (\A t \in Threads : ~InCS(t)) =>
          /\ mu.writer = NoThread /\ mu.readers = {}
          /\ (\E t \in Threads : pc[t] = "lock") =>
                (\E t \in Threads : ENABLED Acquire(t))
    /\ (\A t \in Threads : pc[t] = "lock") =>
          (\E t \in Threads : ENABLED Acquire(t))

\* On a queue of capacity 0 an Enqueue has just returned ErrOverflow after
\* an earlier call, nobody holds q.mu, and a Dequeue waiting for the lock
\* can take it.
C21_Witness ==
    /\ phase = "ready" /\ capacity = 0
    /\ nCalls >= 3
    /\ mu.writer = NoThread /\ mu.readers = {}
    /\ \E t, u \in Threads :
          /\ pc[t] = "returned" /\ op[t] = "Enqueue" /\ err[t] = ErrOverflow
          /\ pc[u] = "lock" /\ op[u] = "Dequeue" /\ ENABLED Acquire(u)

=============================================================================
